---- MODULE Spec2Model ----
(***************************************************************************)
(* Model of pg_backup_s3.py: the create_backup / list_backups /            *)
(* restore_backup workflows and main's dispatch.  One run of the script    *)
(* (or one direct call of one of its functions) is one behaviour.          *)
(* Strings are sequences of code points, so that substring tests and       *)
(* lexical comparison are computed the way Python computes them.           *)
(***************************************************************************)
EXTENDS Integers, Sequences, FiniteSets

VARIABLES
    via,          \* "main" (script run) or "call" (function called directly)
    cmd,          \* "backup" | "list" | "restore" | "none"
    pc,           \* position in the running function
    backup_name,  \* restore_backup's parameter / local
    date_str,     \* restore_backup's parameter
    backup_file,  \* create_backup's local
    store,        \* keys of the objects in the S3 bucket
    store0,       \* the bucket when the run started
    disk,         \* names of the files in the working directory
    db,           \* contents of the target database
    db0,          \* contents of the target database when the run started
    conn,         \* state of the administrative connection
    log,          \* the external calls made so far, in order
    listing,      \* response['Contents'] of the last list_objects_v2
    out,          \* the enumerated lines list_backups printed
    outcome,      \* "running", "ok", or the message of the branch that ended the run
    exitStatus,   \* process exit status, -1 while the process runs
    sessions,     \* other clients' sessions open on the target database
    naming        \* the identifiers built for two clock readings (naming check only)

vars == <<via, cmd, pc, backup_name, date_str, backup_file, store, store0,
          disk, db, db0, conn, log, listing, out, outcome, exitStatus,
          sessions, naming>>

(***************************************************************************)
(* Bounds                                                                  *)
(***************************************************************************)
MaxFragLen == 2   \* length of a date fragment
MaxStore   == 3   \* objects in the bucket when the run starts
PageSize   == 2   \* keys one list_objects_v2 response holds (1000 in S3)
NumYears   == 2   \* years the clock may show
MaxSessions == 1  \* sessions other clients may hold on the target database

(***************************************************************************)
(* Strings                                                                 *)
(***************************************************************************)
None == <<-1>>                               \* Python's None
Truthy(s) == s # None /\ s # <<>>            \* bool(s) for s: Optional[str]

Alphabet == {48, 49}                         \* "0", "1"

RECURSIVE StringsOfLen(_)
StringsOfLen(n) ==
    IF n = 0 THEN {<<>>}
    ELSE {Append(s, c) : s \in StringsOfLen(n - 1), c \in Alphabet}

Strings(lo, hi) == UNION {StringsOfLen(n) : n \in lo .. hi}

Prefix == <<98, 97, 99, 107, 117, 112, 95>>  \* "backup_"
Suffix == <<46, 115, 113, 108>>              \* ".sql"
DB_NAME == <<100, 98>>                       \* "db"

\* str < str: comparison by code point, a proper prefix is smaller
LexLess(a, b) ==
    \E i \in 1 .. Len(b) :
        /\ i - 1 <= Len(a)
        /\ \A j \in 1 .. (i - 1) : a[j] = b[j]
        /\ \/ i > Len(a)
           \/ a[i] < b[i]

\* frag in key
Contains(frag, key) ==
    \E i \in 0 .. (Len(key) - Len(frag)) :
        SubSeq(key, i + 1, i + Len(frag)) = frag

\* insertion of k into a descending sequence
RECURSIVE InsertDesc(_, _)
InsertDesc(k, s) ==
    IF s = <<>> THEN <<k>>
    ELSE IF LexLess(Head(s), k) THEN <<k>> \o s
    ELSE <<Head(s)>> \o InsertDesc(k, Tail(s))

\* a plausible slip: reverse=True left out
RECURSIVE SortedDescAscending(_)
SortedDescAscending(s) ==
    IF s = <<>> THEN <<>>
    ELSE LET r == SortedDescAscending(SubSeq(s, 1, Len(s) - 1))
             k == s[Len(s)]
             below == SelectSeq(r, LAMBDA x : LexLess(x, k))
             rest  == SelectSeq(r, LAMBDA x : ~LexLess(x, k))
         IN  below \o <<k>> \o rest

\* sorted(s, reverse=True)
RECURSIVE SortedDesc(_)
SortedDesc(s) ==
    IF s = <<>> THEN <<>>
    ELSE InsertDesc(s[Len(s)], SortedDesc(SubSeq(s, 1, Len(s) - 1)))

\* a plausible slip: the oldest match instead of the newest
BestMatchOldest(contents, frag) ==
    LET matching_backups == SelectSeq(contents, LAMBDA k : Contains(frag, k))
    IN  IF matching_backups = <<>> THEN None
        ELSE SortedDesc(matching_backups)[Len(matching_backups)]

\* a plausible slip: falls back to the newest key when nothing matches
BestMatchFallback(contents, frag) ==
    LET matching_backups == SelectSeq(contents, LAMBDA k : Contains(frag, k))
    IN  IF matching_backups = <<>> THEN SortedDesc(contents)[1]
        ELSE SortedDesc(matching_backups)[1]

\* lines 90-99: the keys containing date_str, the greatest of them first
BestMatch(contents, frag) ==
    LET matching_backups == SelectSeq(contents, LAMBDA k : Contains(frag, k))
    IN  IF matching_backups = <<>> THEN None
        ELSE SortedDesc(matching_backups)[1]

\* enumerate(backups, 1)
Enumerate(backups) == [i \in 1 .. Len(backups) |-> <<i, backups[i]>>]

(***************************************************************************)
(* The clock and the name of a new backup                                  *)
(***************************************************************************)
Pow10(n) == IF n = 0 THEN 1 ELSE IF n = 1 THEN 10 ELSE IF n = 2 THEN 100 ELSE 1000

\* a plausible slip: a format without zero padding ("%-m" for "%m")
DigitsUnpadded(n, w) ==
    IF n < 10 THEN <<48 + n>>
    ELSE IF n < 100 THEN <<48 + (n \div 10), 48 + (n % 10)>>
    ELSE [i \in 1 .. w |-> 48 + ((n \div Pow10(w - i)) % 10)]

\* n printed in w zero-padded decimal digits
Digits(n, w) == [i \in 1 .. w |-> 48 + ((n \div Pow10(w - i)) % 10)]

\* strftime("%Y-%m-%d_%H-%M-%S")
Strftime(t) ==
    Digits(t.Y, 4) \o <<45>> \o Digits(t.m, 2) \o <<45>> \o Digits(t.d, 2)
    \o <<95>> \o Digits(t.H, 2) \o <<45>> \o Digits(t.M, 2) \o <<45>>
    \o Digits(t.S, 2)

\* f"backup_{DB_NAME}_{timestamp}.sql" for a database name d
MakeIdentifier(d, t) == Prefix \o d \o <<95>> \o Strftime(t) \o Suffix

\* lines 36-37 with the configured DB_NAME
BackupFileName(t) == MakeIdentifier(DB_NAME, t)

\* the values datetime.now() may return
Clock == [Y : 2024 .. (2024 + NumYears - 1), m : {9, 10}, d : {1},
          H : {0}, M : {0}, S : {0, 59}]

(***************************************************************************)
(* The bucket                                                              *)
(***************************************************************************)
\* the keys a bucket may hold: backups named "backup_" and one or two digits,
\* and objects of other names
KeyBodies == StringsOfLen(1) \cup StringsOfLen(2)
Keys == {Prefix \o s : s \in KeyBodies} \cup StringsOfLen(1)

Stores == {S \in SUBSET Keys : Cardinality(S) <= MaxStore}

\* the keys of a bucket in ascending order, as S3 lists them
RECURSIVE KeysAscending(_)
KeysAscending(S) ==
    IF S = {} THEN <<>>
    ELSE LET m == CHOOSE k \in S : \A o \in S \ {k} : LexLess(k, o)
         IN  <<m>> \o KeysAscending(S \ {m})

\* response['Contents'] of list_objects_v2(Bucket=S3_BUCKET): the first page;
\* the empty sequence stands for a response without 'Contents'
ListObjectsV2(S) ==
    LET all == KeysAscending(S)
    IN  SubSeq(all, 1, IF Len(all) < PageSize THEN Len(all) ELSE PageSize)

(***************************************************************************)
(* Arguments                                                               *)
(***************************************************************************)
Names     == {<<>>} \cup StringsOfLen(1) \cup {Prefix \o s : s \in StringsOfLen(1)}
Fragments == Strings(0, MaxFragLen)
CallNames == {None, <<>>, Prefix \o <<48>>}

(***************************************************************************)
(* Exceptions and the except clauses                                       *)
(***************************************************************************)
ListErrors     == {"ClientError", "NoCredentialsError"}
UploadErrors   == {"NoCredentialsError", "S3UploadFailedError"}
DownloadErrors == {"ClientError", "NoCredentialsError"}
ConnectErrors  == {"OperationalError"}
SqlErrors      == {"OperationalError", "ProgrammingError"}
ExitCodes      == {0, 1}

\* subprocess.run(dump_command, ..., check=True)
DumpUnchecked(rc) == FALSE
DumpRaises(rc) == rc # 0

\* subprocess.run(restore_command, ..., check=True)
RestoreRaises(rc) == rc # 0

\* lines 56-61
CreateHandler(exc) ==
    IF exc = "CalledProcessError" THEN "Error al crear el backup"
    ELSE IF exc = "NoCredentialsError" THEN "Credenciales de AWS no encontradas"
    ELSE "Error inesperado"

\* lines 77-78: only ClientError is caught
ListCatches(exc) == exc = "ClientError"

\* lines 149-156
RestoreHandler(exc) ==
    IF exc = "OperationalError" THEN "Error de conexion a PostgreSQL"
    ELSE IF exc = "CalledProcessError" THEN "Error al restaurar el backup"
    ELSE IF exc = "ClientError" THEN "Error al descargar desde S3"
    ELSE "Error inesperado"

Call(op, arg, ok) == [op |-> op, arg |-> arg, ok |-> ok]

(***************************************************************************)
(* Initial state: the script has been started, nothing has run             *)
(***************************************************************************)
Init ==
    /\ via = "none"
    /\ cmd = "none"
    /\ pc = "start"
    /\ backup_name = None
    /\ date_str = None
    /\ backup_file = None
    /\ store \in Stores
    /\ store0 = store
    /\ disk = {}
    /\ db = "old"
    /\ db0 = "old"
    /\ conn = "none"
    /\ log = <<>>
    /\ listing = <<>>
    /\ out = <<>>
    /\ outcome = "running"
    /\ exitStatus = -1
    /\ sessions = 0
    /\ naming = <<>>

Env == <<store, store0, disk, db, db0, conn, log, listing, out, exitStatus, backup_file,
         sessions, naming>>

\* lines 158-184: parse the arguments and call one function
Main ==
    /\ pc = "start"
    /\ \E command \in {"backup", "list", "restore"},
          name \in {None} \cup Names, date \in {None} \cup Fragments :
          \* --name and --date exist only for restore, where exactly one is required
          /\ command # "restore" => name = None /\ date = None
          /\ command = "restore" => (name = None) # (date = None)
          /\ via' = "main"
          /\ cmd' = command
          /\ IF command = "backup"
               THEN pc' = "b_dump" /\ UNCHANGED <<backup_name, date_str, outcome>>
             ELSE IF command = "list"
               THEN pc' = "l_list" /\ UNCHANGED <<backup_name, date_str, outcome>>
             ELSE IF Truthy(name)
               THEN pc' = "r_resolve" /\ backup_name' = name /\ date_str' = None
                    /\ UNCHANGED outcome
             ELSE IF Truthy(date)
               THEN pc' = "r_resolve" /\ backup_name' = None /\ date_str' = date
                    /\ UNCHANGED outcome
             ELSE pc' = "returned" /\ outcome' = "nothing called"
                  /\ UNCHANGED <<backup_name, date_str>>
    /\ UNCHANGED Env

\* one of the three functions called directly, as a test or an importing script does
DirectCall ==
    /\ pc = "start"
    /\ via' = "call"
    /\ \/ cmd' = "backup" /\ pc' = "b_dump" /\ UNCHANGED <<backup_name, date_str>>
       \/ cmd' = "list" /\ pc' = "l_list" /\ UNCHANGED <<backup_name, date_str>>
       \/ /\ cmd' = "restore"
          /\ pc' = "r_resolve"
          /\ backup_name' \in CallNames
          /\ date_str' \in {None} \cup Fragments
    /\ UNCHANGED <<Env, outcome>>

(***************************************************************************)
(* create_backup, lines 32-61                                              *)
(***************************************************************************)
\* lines 36-46: name the file and run pg_dump
B_Dump ==
    /\ pc = "b_dump"
    /\ \E t \in Clock, rc \in ExitCodes, wrote \in BOOLEAN :
          LET file == BackupFileName(t) IN
          /\ rc = 0 => wrote
          /\ backup_file' = file
          /\ disk' = IF wrote THEN disk \cup {file} ELSE disk
          /\ log' = Append(log, Call("pg_dump", file, rc = 0))
          /\ IF DumpRaises(rc)
               THEN pc' = "returned" /\ outcome' = CreateHandler("CalledProcessError")
               ELSE pc' = "b_upload" /\ UNCHANGED outcome
    /\ UNCHANGED <<sessions, naming, via, cmd, backup_name, date_str, store, store0, db, db0, conn,
                   listing, out, exitStatus>>

\* a plausible slip: the except clauses clean the file up
B_UploadCleaning ==
    /\ pc = "b_upload"
    /\ \E exc \in {"ok"} \cup UploadErrors :
          /\ exc = "ok" => backup_file \in disk
          /\ log' = Append(log, Call("upload", backup_file, exc = "ok"))
          /\ store' = IF exc = "ok" THEN store \cup {backup_file} ELSE store
          /\ disk' = IF exc = "ok" THEN disk ELSE disk \ {backup_file}
          /\ IF exc = "ok"
               THEN pc' = "b_remove" /\ UNCHANGED outcome
               ELSE pc' = "returned" /\ outcome' = CreateHandler(exc)
    /\ UNCHANGED <<sessions, naming, via, cmd, backup_name, date_str, backup_file, store0, db, db0,
                   conn, listing, out, exitStatus>>

\* a plausible slip: the upload in a try/except of its own that prints and goes on
B_UploadSwallowed ==
    /\ pc = "b_upload"
    /\ \E exc \in {"ok"} \cup UploadErrors :
          /\ exc = "ok" => backup_file \in disk
          /\ log' = Append(log, Call("upload", backup_file, exc = "ok"))
          /\ store' = IF exc = "ok" THEN store \cup {backup_file} ELSE store
          /\ pc' = "b_remove"
          /\ UNCHANGED outcome
    /\ UNCHANGED <<sessions, naming, via, cmd, backup_name, date_str, backup_file,
                   store0, disk, db, db0, conn, listing, out, exitStatus>>

\* lines 48-51: upload_file; an exception leaves the try block (lines 56-61)
B_Upload ==
    /\ pc = "b_upload"
    /\ \E exc \in {"ok"} \cup UploadErrors :
          /\ exc = "ok" => backup_file \in disk
          /\ log' = Append(log, Call("upload", backup_file, exc = "ok"))
          /\ store' = IF exc = "ok" THEN store \cup {backup_file} ELSE store
          /\ IF exc = "ok"
               THEN pc' = "b_remove" /\ UNCHANGED outcome
               ELSE pc' = "returned" /\ outcome' = CreateHandler(exc)
    /\ UNCHANGED <<sessions, naming, via, cmd, backup_name, date_str, backup_file, store0, disk, db,
                   db0, conn, listing, out, exitStatus>>

\* lines 53-54: os.remove(backup_file)
B_Remove ==
    /\ pc = "b_remove"
    /\ \E exc \in {"ok", "OSError"} :
          /\ log' = Append(log, Call("remove", backup_file, exc = "ok"))
          /\ disk' = IF exc = "ok" THEN disk \ {backup_file} ELSE disk
          /\ outcome' = IF exc = "ok" THEN "ok" ELSE CreateHandler(exc)
    /\ pc' = "returned"
    /\ UNCHANGED <<sessions, naming, via, cmd, backup_name, date_str, backup_file, store, store0, db,
                   db0, conn, listing, out, exitStatus>>

(***************************************************************************)
(* list_backups, lines 63-78                                               *)
(***************************************************************************)
L_List ==
    /\ pc = "l_list"
    /\ \E exc \in {"ok"} \cup ListErrors :
          /\ log' = Append(log, Call("list", <<>>, exc = "ok"))
          /\ IF exc = "ok"
               THEN LET contents == ListObjectsV2(store) IN
                    /\ listing' = contents
                    /\ out' = IF contents = <<>> THEN <<>>
                              ELSE Enumerate(SortedDesc(contents))
                    /\ outcome' = "ok"
                    /\ pc' = "returned"
             ELSE IF ListCatches(exc)
               THEN /\ outcome' = "Error al listar backups"
                    /\ pc' = "returned"
                    /\ UNCHANGED <<listing, out>>
             ELSE /\ outcome' = "uncaught " \o exc
                  /\ pc' = "raised"
                  /\ UNCHANGED <<listing, out>>
    /\ UNCHANGED <<sessions, naming, via, cmd, backup_name, date_str, backup_file, store, store0,
                   disk, db, db0, conn, exitStatus>>

(***************************************************************************)
(* restore_backup, lines 80-156                                            *)
(***************************************************************************)
\* a plausible slip: the connection closed after pg_restore instead of before
RestoreNextCloseLast(step) ==
    CASE step = "r_download"  -> "r_connect"
      [] step = "r_connect"   -> "r_terminate"
      [] step = "r_terminate" -> "r_drop"
      [] step = "r_drop"      -> "r_create"
      [] step = "r_create"    -> "r_pgrestore"
      [] step = "r_pgrestore" -> "r_close"
      [] step = "r_close"     -> "r_remove"
      [] step = "r_remove"    -> "returned"

\* the statement after each call of the try block, lines 106-147
RestoreNext(step) ==
    CASE step = "r_download"  -> "r_connect"
      [] step = "r_connect"   -> "r_terminate"
      [] step = "r_terminate" -> "r_drop"
      [] step = "r_drop"      -> "r_create"
      [] step = "r_create"    -> "r_close"
      [] step = "r_close"     -> "r_pgrestore"
      [] step = "r_pgrestore" -> "r_remove"
      [] step = "r_remove"    -> "returned"

\* a plausible slip: the terminate-sessions statement in a try/except of its own
RestoreJumpQuiesceSwallowed(step, exc) ==
    IF exc = "ok" \/ step = "r_terminate" \/ step = "r_connect"
    THEN RestoreNext(step) ELSE "returned"

\* a plausible slip: the download in a try/except of its own
RestoreJumpDownloadSwallowed(step, exc) ==
    IF exc = "ok" \/ step = "r_download" THEN RestoreNext(step) ELSE "returned"

\* a plausible slip: the database created before the old one is dropped
RestoreJumpCreateFirst(step, exc) ==
    IF exc # "ok" THEN "returned"
    ELSE IF step = "r_terminate" THEN "r_create"
    ELSE IF step = "r_create" THEN "r_drop"
    ELSE IF step = "r_drop" THEN "r_close"
    ELSE RestoreNext(step)

\* lines 82-156: a call that returns is followed by the next statement, one that
\* raises by an except clause and the function's return
RestoreJump(step, exc) ==
    IF exc = "ok" THEN RestoreNext(step) ELSE "returned"

\* the outcome after a call of the try block
RestoreOutcome(step, exc) ==
    IF exc # "ok" THEN RestoreHandler(exc)
    ELSE IF RestoreJump(step, exc) = "returned" THEN "ok"
    ELSE outcome

\* lines 83-100: resolve the date fragment against the bucket's listing
R_ResolveByDate ==
    /\ pc = "r_resolve"
    /\ Truthy(date_str)
    /\ \E exc \in {"ok"} \cup ListErrors :
          /\ log' = Append(log, Call("list", <<>>, exc = "ok"))
          /\ IF exc # "ok"
               THEN /\ outcome' = RestoreHandler(exc)
                    /\ pc' = "returned"
                    /\ UNCHANGED <<listing, backup_name>>
             ELSE LET contents == ListObjectsV2(store) IN
                  /\ listing' = contents
                  /\ IF contents = <<>>
                       THEN /\ outcome' = "No se encontraron backups en el bucket"
                            /\ pc' = "returned"
                            /\ UNCHANGED backup_name
                     ELSE IF BestMatch(contents, date_str) = None
                       THEN /\ outcome' = "No se encontraron backups para la fecha"
                            /\ pc' = "returned"
                            /\ UNCHANGED backup_name
                     ELSE /\ backup_name' = BestMatch(contents, date_str)
                          /\ pc' = "r_download"
                          /\ UNCHANGED outcome
    /\ UNCHANGED <<sessions, naming, via, cmd, date_str, backup_file, store, store0, disk, db, db0,
                   conn, out, exitStatus>>

\* lines 83, 102-104: no usable date; the name must be given
R_ResolveByName ==
    /\ pc = "r_resolve"
    /\ ~Truthy(date_str)
    /\ IF Truthy(backup_name)
         THEN pc' = "r_download" /\ UNCHANGED outcome
         ELSE pc' = "returned"
              /\ outcome' = "Debe especificar un nombre de backup o una fecha"
    /\ UNCHANGED <<via, cmd, backup_name, date_str, Env>>

\* lines 106-108: download_file writes the object to a file of the same name
R_Download ==
    /\ pc = "r_download"
    /\ \E exc \in {"ok"} \cup DownloadErrors :
          /\ exc = "ok" => backup_name \in store
          /\ log' = Append(log, Call("download", backup_name, exc = "ok"))
          /\ disk' = IF exc = "ok" THEN disk \cup {backup_name} ELSE disk
          /\ pc' = RestoreJump("r_download", exc)
          /\ outcome' = RestoreOutcome("r_download", exc)
    /\ UNCHANGED <<sessions, naming, via, cmd, backup_name, date_str, backup_file, store, store0, db,
                   db0, conn, listing, out, exitStatus>>

\* lines 113-122: connect to the "postgres" database
R_Connect ==
    /\ pc = "r_connect"
    /\ \E exc \in {"ok"} \cup ConnectErrors :
          /\ log' = Append(log, Call("connect", <<>>, exc = "ok"))
          /\ conn' = IF exc = "ok" THEN "open" ELSE conn
          /\ pc' = RestoreJump("r_connect", exc)
          /\ outcome' = RestoreOutcome("r_connect", exc)
    /\ UNCHANGED <<sessions, naming, via, cmd, backup_name, date_str, backup_file, store, store0,
                   disk, db, db0, listing, out, exitStatus>>

\* lines 124-130: pg_terminate_backend for the sessions on DB_NAME
R_Terminate ==
    /\ pc = "r_terminate"
    /\ \E exc \in {"ok"} \cup SqlErrors :
          /\ log' = Append(log, Call("terminate", <<>>, exc = "ok"))
          /\ sessions' = IF exc = "ok" THEN 0 ELSE sessions
          /\ pc' = RestoreJump("r_terminate", exc)
          /\ outcome' = RestoreOutcome("r_terminate", exc)
    /\ UNCHANGED <<naming, via, cmd, backup_name, date_str, backup_file, store, store0,
                   disk, db, db0, conn, listing, out, exitStatus>>

\* line 133: DROP DATABASE IF EXISTS; the server refuses it with ObjectInUse
\* (an OperationalError) while another session is open on the database.
\* The call is logged with the number of such sessions.
R_Drop ==
    /\ pc = "r_drop"
    /\ \E exc \in {"ok"} \cup SqlErrors :
          /\ sessions > 0 => exc = "OperationalError"
          /\ log' = Append(log, Call("drop", <<sessions>>, exc = "ok"))
          /\ db' = IF exc = "ok" THEN "absent" ELSE db
          /\ pc' = RestoreJump("r_drop", exc)
          /\ outcome' = RestoreOutcome("r_drop", exc)
    /\ UNCHANGED <<sessions, naming, via, cmd, backup_name, date_str, backup_file, store, store0,
                   disk, db0, conn, listing, out, exitStatus>>

\* line 134: CREATE DATABASE
R_Create ==
    /\ pc = "r_create"
    /\ \E exc \in {"ok"} \cup SqlErrors :
          /\ exc = "ok" => db = "absent"
          /\ log' = Append(log, Call("create", <<>>, exc = "ok"))
          /\ db' = IF exc = "ok" THEN "empty" ELSE db
          /\ pc' = RestoreJump("r_create", exc)
          /\ outcome' = RestoreOutcome("r_create", exc)
    /\ UNCHANGED <<sessions, naming, via, cmd, backup_name, date_str, backup_file, store, store0,
                   disk, db0, conn, listing, out, exitStatus>>

\* lines 135-136: cursor.close(); conn.close()
R_Close ==
    /\ pc = "r_close"
    /\ log' = Append(log, Call("close", <<>>, TRUE))
    /\ conn' = "closed"
    /\ pc' = RestoreJump("r_close", "ok")
    /\ outcome' = RestoreOutcome("r_close", "ok")
    /\ UNCHANGED <<sessions, naming, via, cmd, backup_name, date_str, backup_file, store, store0,
                   disk, db, db0, listing, out, exitStatus>>

\* a plausible slip: a failed pg_restore undone by putting the old contents back
R_PgRestoreRollingBack ==
    /\ pc = "r_pgrestore"
    /\ \E rc \in ExitCodes :
          LET exc == IF RestoreRaises(rc) THEN "CalledProcessError" ELSE "ok" IN
          /\ log' = Append(log, Call("pg_restore", backup_name, rc = 0))
          /\ db' = IF rc = 0 THEN "restored" ELSE db0
          /\ pc' = RestoreJump("r_pgrestore", exc)
          /\ outcome' = RestoreOutcome("r_pgrestore", exc)
    /\ UNCHANGED <<sessions, naming, via, cmd, backup_name, date_str, backup_file,
                   store, store0, disk, db0, conn, listing, out, exitStatus>>

\* lines 138-144: pg_restore into DB_NAME
R_PgRestore ==
    /\ pc = "r_pgrestore"
    /\ \E rc \in ExitCodes :
          LET exc == IF RestoreRaises(rc) THEN "CalledProcessError" ELSE "ok" IN
          /\ log' = Append(log, Call("pg_restore", backup_name, rc = 0))
          /\ db' = IF db = "empty" THEN (IF rc = 0 THEN "restored" ELSE "partial")
                   ELSE db
          /\ pc' = RestoreJump("r_pgrestore", exc)
          /\ outcome' = RestoreOutcome("r_pgrestore", exc)
    /\ UNCHANGED <<sessions, naming, via, cmd, backup_name, date_str, backup_file, store, store0,
                   disk, db0, conn, listing, out, exitStatus>>

\* lines 146-147: os.remove(backup_name)
R_Remove ==
    /\ pc = "r_remove"
    /\ \E exc \in {"ok", "OSError"} :
          /\ log' = Append(log, Call("remove", backup_name, exc = "ok"))
          /\ disk' = IF exc = "ok" THEN disk \ {backup_name} ELSE disk
          /\ pc' = RestoreJump("r_remove", exc)
          /\ outcome' = RestoreOutcome("r_remove", exc)
    /\ UNCHANGED <<sessions, naming, via, cmd, backup_name, date_str, backup_file, store, store0, db,
                   db0, conn, listing, out, exitStatus>>

(***************************************************************************)
(* Other clients of the database server, while restore_backup runs         *)
(***************************************************************************)
RestoreSteps == {"r_resolve", "r_download", "r_connect", "r_terminate", "r_drop",
                 "r_create", "r_close", "r_pgrestore", "r_remove"}

\* a client opens a session on DB_NAME; nothing in lines 124-134 prevents it
ClientConnect ==
    /\ cmd = "restore"
    /\ pc \in RestoreSteps
    /\ db # "absent"
    /\ sessions < MaxSessions
    /\ sessions' = sessions + 1
    /\ UNCHANGED <<naming, via, cmd, pc, backup_name, date_str, backup_file, store,
                   store0, disk, db, db0, conn, log, listing, out, outcome,
                   exitStatus>>

\* a client closes its session
ClientDisconnect ==
    /\ cmd = "restore"
    /\ pc \in RestoreSteps
    /\ sessions > 0
    /\ sessions' = sessions - 1
    /\ UNCHANGED <<naming, via, cmd, pc, backup_name, date_str, backup_file, store,
                   store0, disk, db, db0, conn, log, listing, out, outcome,
                   exitStatus>>

(***************************************************************************)
(* The end of the process, lines 186-187                                   *)
(***************************************************************************)
\* main returns and the interpreter exits with 0; an exception nobody caught
\* ends it with a traceback and 1
Exit ==
    /\ via = "main"
    /\ pc \in {"returned", "raised"}
    /\ pc' = "exited"
    /\ exitStatus' = IF pc = "raised" THEN 1 ELSE 0
    /\ UNCHANGED <<sessions, naming, via, cmd, backup_name, date_str, backup_file, store, store0,
                   disk, db, db0, conn, log, listing, out, outcome>>

Next ==
    \/ Main
    \/ DirectCall
    \/ B_Dump
    \/ B_Upload
    \/ B_Remove
    \/ L_List
    \/ R_ResolveByDate
    \/ R_ResolveByName
    \/ R_Download
    \/ R_Connect
    \/ R_Terminate
    \/ R_Drop
    \/ R_Create
    \/ R_Close
    \/ R_PgRestore
    \/ R_Remove
    \/ ClientConnect
    \/ ClientDisconnect
    \/ Exit

Spec == Init /\ [][Next]_vars

(***************************************************************************)
(* The naming of backups on its own: create_backup's lines 36-37 applied   *)
(* to two readings of the clock for one database name                      *)
(***************************************************************************)
\* readings of datetime.now() on both sides of a change in the number of digits
NamingClock == [Y : 2024 .. (2024 + NumYears - 1), m : {9, 10}, d : {9, 10},
                H : {9, 10}, M : {9, 10}, S : {9, 10}]

\* values of DB_NAME: "db", "d", "db_1"
DbNames == {<<100, 98>>, <<100>>, <<100, 98, 95, 49>>}

\* datetime's order: t is earlier than u
TsLess(t, u) ==
    LET a == <<t.Y, t.m, t.d, t.H, t.M, t.S>>
        b == <<u.Y, u.m, u.d, u.H, u.M, u.S>>
    IN  \E i \in 1 .. 6 : a[i] < b[i] /\ \A j \in 1 .. (i - 1) : a[j] = b[j]

NamingInit ==
    /\ via = "call"
    /\ cmd = "backup"
    /\ pc = "naming"
    /\ backup_name = None
    /\ date_str = None
    /\ backup_file = None
    /\ store = {}
    /\ store0 = {}
    /\ disk = {}
    /\ db = "old"
    /\ db0 = "old"
    /\ conn = "none"
    /\ log = <<>>
    /\ listing = <<>>
    /\ out = <<>>
    /\ outcome = "running"
    /\ exitStatus = -1
    /\ sessions = 0
    /\ naming \in [d : DbNames, t1 : NamingClock, t2 : NamingClock,
                    id1 : {None}, id2 : {None}]

\* lines 36-37, once for each reading of the clock
N_MakeIdentifiers ==
    /\ pc = "naming"
    /\ naming.id1 = None
    /\ naming' = [naming EXCEPT !.id1 = MakeIdentifier(naming.d, naming.t1),
                                !.id2 = MakeIdentifier(naming.d, naming.t2)]
    /\ UNCHANGED <<via, cmd, pc, backup_name, date_str, backup_file, store, store0,
                   disk, db, db0, conn, log, listing, out, outcome, exitStatus,
                   sessions>>

NamingNext == N_MakeIdentifiers

NamingSpec == NamingInit /\ [][NamingNext]_vars

(***************************************************************************)
(* Vocabulary of the properties                                            *)
(***************************************************************************)
Terminated == pc \in {"returned", "raised", "exited"}

Count(op) == Cardinality({i \in 1 .. Len(log) : log[i].op = op})

Succeeded(op) == \E i \in 1 .. Len(log) : log[i].op = op /\ log[i].ok

FailedCall(op) == \E i \in 1 .. Len(log) : log[i].op = op /\ ~log[i].ok

ByName == cmd = "restore" /\ ~Truthy(date_str) /\ Truthy(backup_name)

StepOrder == <<"download", "terminate", "drop", "create", "pg_restore", "remove">>

StepsOf(l) == SelectSeq(l, LAMBDA c : \E i \in 1 .. Len(StepOrder) : c.op = StepOrder[i])

\* the listed keys that contain the fragment
Matches(contents, frag) ==
    {contents[i] : i \in {j \in 1 .. Len(contents) : Contains(frag, contents[j])}}

(***************************************************************************)
(* C1: in restore_backup, once pg_restore has run, the downloaded file is  *)
(* gone when the run has terminated, whether pg_restore exited zero or     *)
(* not (a deletion that itself failed excepted: it is best-effort).        *)
(* The code skips os.remove when pg_restore raises.                        *)
(***************************************************************************)
C1_ArtifactDeletedAfterApply ==
    (cmd = "restore" /\ Terminated /\ Count("pg_restore") > 0 /\ ~FailedCall("remove"))
        => backup_name \notin disk

(***************************************************************************)
(* C2: restore by a date fragment that no key of the bucket contains (the  *)
(* empty bucket included) makes no download, no terminate-sessions, no     *)
(* DROP/CREATE DATABASE and no pg_restore call.                            *)
(***************************************************************************)
C2_UnmatchedFragmentDoesNothing ==
    (cmd = "restore" /\ Truthy(date_str) /\ \A k \in store : ~Contains(date_str, k))
        => /\ Count("download") = 0
           /\ Count("terminate") = 0
           /\ Count("drop") = 0
           /\ Count("create") = 0
           /\ Count("pg_restore") = 0
           /\ db = db0
           /\ pc \in {"r_resolve", "returned", "exited"}

W2_UnmatchedFragmentRun ==
    /\ cmd = "restore" /\ Truthy(date_str) /\ Terminated
    /\ store # {}
    /\ \A k \in store : ~Contains(date_str, k)
    /\ Succeeded("list")
    /\ outcome = "No se encontraron backups para la fecha"

(***************************************************************************)
(* C3: in create_backup, when pg_dump exits non-zero the run ends in the   *)
(* error branch with no upload call made and the bucket as it was.         *)
(***************************************************************************)
C3_DumpFailureUploadsNothing ==
    (cmd = "backup" /\ FailedCall("pg_dump"))
        => /\ pc \in {"returned", "exited"}
           /\ outcome = "Error al crear el backup"
           /\ Count("upload") = 0
           /\ store = store0

W3_DumpFailedRun ==
    /\ cmd = "backup" /\ FailedCall("pg_dump") /\ Terminated
    /\ backup_file \in disk

(***************************************************************************)
(* C4: in restore_backup, when the administrative connection or the        *)
(* terminate-sessions statement fails, the run ends without DROP DATABASE, *)
(* CREATE DATABASE or pg_restore, and the target database is unchanged.    *)
(***************************************************************************)
C4_QuiesceFailureAbortsBeforeDrop ==
    (cmd = "restore" /\ (FailedCall("connect") \/ FailedCall("terminate")))
        => /\ pc \in {"returned", "exited"}
           /\ Count("drop") = 0
           /\ Count("create") = 0
           /\ Count("pg_restore") = 0
           /\ db = db0

W4_TerminateFailedRun ==
    /\ cmd = "restore" /\ FailedCall("terminate") /\ Terminated
    /\ backup_name \in disk

(***************************************************************************)
(* C5: a restore by explicit name runs download (of the named key),        *)
(* terminate-sessions, DROP, CREATE, pg_restore and the deletion of the    *)
(* file at most once each and in that order, each only after the previous  *)
(* one succeeded; the successful run has made all six.                     *)
(***************************************************************************)
C5_RestoreStepsInOrder ==
    ByName =>
        LET s == StepsOf(log) IN
        /\ Len(s) <= Len(StepOrder)
        /\ \A i \in 1 .. Len(s) :
              /\ i <= Len(StepOrder) => s[i].op = StepOrder[i]
              /\ i < Len(s) => s[i].ok
              /\ s[i].op \in {"download", "pg_restore", "remove"}
                    => s[i].arg = backup_name
        /\ (Terminated /\ outcome = "ok")
              => /\ Len(s) = Len(StepOrder)
                 /\ s[Len(s)].ok
                 /\ db = "restored"
                 /\ backup_name \notin disk

W5_SuccessfulRestoreByName ==
    /\ ByName /\ pc = "exited" /\ outcome = "ok"
    /\ Len(StepsOf(log)) = 6

(***************************************************************************)
(* C6: in restore_backup, when the download fails (the key not being in    *)
(* the bucket included) no administrative connection is opened and no      *)
(* terminate-sessions, DROP, CREATE or pg_restore is issued.               *)
(***************************************************************************)
C6_DownloadFailureStopsRun ==
    (cmd = "restore" /\ FailedCall("download"))
        => /\ pc \in {"returned", "exited"}
           /\ conn = "none"
           /\ Count("connect") = 0
           /\ Count("terminate") = 0
           /\ Count("drop") = 0
           /\ Count("create") = 0
           /\ Count("pg_restore") = 0
           /\ db = db0

W6_KeyNotFoundRun ==
    /\ cmd = "restore" /\ FailedCall("download") /\ Terminated
    /\ backup_name \notin store

(***************************************************************************)
(* C7: the process exits with status zero exactly when the workflow        *)
(* succeeded, and non-zero when a step failed.  The code prints the error  *)
(* in an except clause and main returns normally.                          *)
(***************************************************************************)
C7_ExitStatusReflectsFailure ==
    pc = "exited" =>
        /\ (\E i \in 1 .. Len(log) : ~log[i].ok) => exitStatus # 0
        /\ exitStatus = 0 => outcome \in {"ok", "nothing called"}

(***************************************************************************)
(* C8: in create_backup, when the dump succeeded and the upload fails, the *)
(* run ends in the error branch and the dump file is still on disk.        *)
(***************************************************************************)
C8_UploadFailureKeepsArtifact ==
    (cmd = "backup" /\ FailedCall("upload"))
        => /\ pc \in {"returned", "exited"}
           /\ outcome \in {"Credenciales de AWS no encontradas", "Error inesperado"}
           /\ Succeeded("pg_dump")
           /\ backup_file \in disk
           /\ Count("remove") = 0
           /\ store = store0

W8_UploadFailedRun ==
    /\ cmd = "backup" /\ FailedCall("upload") /\ Terminated
    /\ Succeeded("pg_dump")

(***************************************************************************)
(* C9 as stated: for every listing and every fragment given, the key       *)
(* resolved is the greatest listed key containing the fragment, and none   *)
(* when no listed key contains it.  An empty fragment is contained in      *)
(* every key, but the code treats it as no fragment at all.                *)
(***************************************************************************)
C9_EveryFragmentResolved ==
    (cmd = "restore" /\ date_str # None /\ pc # "r_resolve" /\ ~FailedCall("list"))
        => LET m == Matches(ListObjectsV2(store), date_str) IN
           IF m = {}
             THEN Count("download") = 0
             ELSE /\ backup_name \in m
                  /\ \A k \in m : ~LexLess(backup_name, k)

(***************************************************************************)
(* C9 amended: for every listing and every non-empty fragment, the key     *)
(* resolved is the greatest listed key containing the fragment; when no    *)
(* listed key contains it nothing is resolved, the run returns without an  *)
(* exception and without a download.                                       *)
(***************************************************************************)
C9_NonEmptyFragmentResolved ==
    (cmd = "restore" /\ Truthy(date_str) /\ Succeeded("list"))
        => LET m == Matches(listing, date_str) IN
           /\ listing = ListObjectsV2(store)
           /\ IF m = {}
                THEN /\ Count("download") = 0
                     /\ pc \in {"returned", "exited"}
                     /\ outcome \in {"No se encontraron backups en el bucket",
                                     "No se encontraron backups para la fecha"}
                ELSE /\ backup_name \in m
                     /\ \A k \in m : k = backup_name \/ LexLess(k, backup_name)
                     /\ \A i \in 1 .. Len(log) :
                           log[i].op = "download" => log[i].arg = backup_name

W9_NewestOfSeveralMatches ==
    /\ cmd = "restore" /\ Truthy(date_str) /\ Succeeded("list")
    /\ Cardinality(Matches(listing, date_str)) >= 2
    /\ \E k \in store : ~Contains(date_str, k)
    /\ Succeeded("download")

(***************************************************************************)
(* C10: list_backups prints every key of the listing exactly once, in      *)
(* strictly descending lexical order, numbered from 1; for a bucket with   *)
(* no objects it prints no entry and does not fail.                        *)
(***************************************************************************)
C10_ListingPrintedNewestFirst ==
    (cmd = "list" /\ Succeeded("list"))
        => /\ pc \in {"returned", "exited"}
           /\ outcome = "ok"
           /\ listing = ListObjectsV2(store)
           /\ Len(out) = Len(listing)
           /\ {out[i][2] : i \in 1 .. Len(out)} = {listing[i] : i \in 1 .. Len(listing)}
           /\ \A i \in 1 .. Len(out) : out[i][1] = i
           /\ \A i \in 1 .. Len(out) : \A j \in 1 .. Len(out) :
                 i < j => LexLess(out[j][2], out[i][2])
           /\ store = {} => out = <<>>

W10_SeveralKeysListed ==
    /\ cmd = "list" /\ Succeeded("list") /\ Terminated
    /\ Len(out) >= 2

(***************************************************************************)
(* C11: for every database name and every two clock readings t1 < t2, the  *)
(* name create_backup builds for t1 is lexically strictly smaller than the *)
(* name it builds for t2.                                                  *)
(***************************************************************************)
C11_IdentifierOrderIsTimeOrder ==
    (pc = "naming" /\ naming.id1 # None /\ TsLess(naming.t1, naming.t2))
        => LexLess(naming.id1, naming.id2)

W11_NamesAcrossDigitChange ==
    /\ pc = "naming" /\ naming.id1 # None
    /\ naming.t1.Y = naming.t2.Y
    /\ naming.t1.m = 9 /\ naming.t2.m = 10
    /\ naming.t1.d = 10 /\ naming.t2.d = 9
    /\ LexLess(naming.id1, naming.id2)

HasPrefix(k) == Len(k) >= Len(Prefix) /\ SubSeq(k, 1, Len(Prefix)) = Prefix

KeysOf(lines) == {lines[i][2] : i \in 1 .. Len(lines)}

(***************************************************************************)
(* C12: in restore_backup, once DROP DATABASE has succeeded the contents   *)
(* the target database had before the run are gone in every later state,   *)
(* the one reached when CREATE DATABASE or pg_restore fails included.      *)
(***************************************************************************)
C12_DropIsIrreversible ==
    (cmd = "restore" /\ Succeeded("drop"))
        => /\ db # db0
           /\ db \in {"absent", "empty", "partial", "restored"}

W12_RestoreFailedAfterDrop ==
    /\ cmd = "restore" /\ Succeeded("drop") /\ FailedCall("pg_restore")
    /\ Terminated
    /\ db = "partial"

(***************************************************************************)
(* C13: in restore_backup, a DROP DATABASE issued after the                *)
(* terminate-sessions statement completed finds no session open on the     *)
(* target database, whatever other clients do meanwhile.  Nothing in the   *)
(* code keeps a client from connecting between the two statements.         *)
(***************************************************************************)
C13_DropNeverBlockedAfterTerminate ==
    (cmd = "restore" /\ Succeeded("terminate"))
        => \A i \in 1 .. Len(log) : log[i].op = "drop" => log[i].arg = <<0>>

(***************************************************************************)
(* C14: in restore_backup, when the administrative connection, the         *)
(* terminate-sessions statement, DROP or CREATE fails after a successful   *)
(* download, the downloaded file is gone when the run has terminated.      *)
(* The code removes the file only at the end of the try block.             *)
(***************************************************************************)
C14_ArtifactDeletedOnFailurePaths ==
    (/\ cmd = "restore" /\ Terminated /\ Succeeded("download")
     /\ \/ FailedCall("connect") \/ FailedCall("terminate")
        \/ FailedCall("drop") \/ FailedCall("create"))
        => backup_name \notin disk

(***************************************************************************)
(* C15: in create_backup, when pg_dump exits non-zero after writing part   *)
(* of the file, the file is gone when the run has terminated.  The except  *)
(* clause only prints.                                                     *)
(***************************************************************************)
C15_PartialDumpRemoved ==
    (cmd = "backup" /\ Terminated /\ FailedCall("pg_dump"))
        => backup_file \notin disk

(***************************************************************************)
(* C16: only keys that start with "backup_" are printed by list_backups    *)
(* or chosen by the date-fragment resolution.  The code lists the whole    *)
(* bucket.                                                                 *)
(***************************************************************************)
C16_CatalogHoldsOnlyBackups ==
    /\ cmd = "list" => \A k \in KeysOf(out) : HasPrefix(k)
    /\ (cmd = "restore" /\ Truthy(date_str) /\ Count("download") > 0)
          => HasPrefix(backup_name)

(***************************************************************************)
(* C17: list_backups prints every backup of the bucket, and the            *)
(* date-fragment resolution chooses the greatest among all backups of the  *)
(* bucket that contain the fragment, also when one list response holds     *)
(* only a first page.  The code reads one response and never continues.    *)
(* Stated for buckets that hold backups only, so that the objects of other *)
(* names of C16 play no part.                                              *)
(***************************************************************************)
C17_CatalogIsComplete ==
    (\A b \in store0 : HasPrefix(b)) =>
    /\ (cmd = "list" /\ Succeeded("list"))
          => \A k \in store0 : k \in KeysOf(out)
    /\ (cmd = "restore" /\ Truthy(date_str) /\ Succeeded("list") /\ pc # "r_resolve")
          => \A k \in store :
                (HasPrefix(k) /\ Contains(date_str, k))
                   => /\ backup_name # None
                      /\ ~LexLess(backup_name, k)

(***************************************************************************)
(* C18: in create_backup, when dump and upload succeeded and the deletion  *)
(* of the local file fails, the object stays in the bucket and the run     *)
(* ends as a successful backup, not in an error branch.  The code ends in  *)
(* the generic except clause.                                              *)
(***************************************************************************)
C18_FailedDeletionNotEscalated ==
    (cmd = "backup" /\ Terminated /\ Succeeded("upload") /\ FailedCall("remove"))
        => /\ backup_file \in store
           /\ outcome = "ok"

(***************************************************************************)
(* C19: in create_backup, from the success of pg_dump on, the dump is on   *)
(* the local disk or in the bucket in every state, and the local file is   *)
(* deleted only after the upload returned successfully.                    *)
(***************************************************************************)
C19_DumpNeverLost ==
    (cmd = "backup" /\ pc # "naming" /\ Succeeded("pg_dump"))
        => /\ backup_file \in disk \/ backup_file \in store
           /\ Count("remove") > 0 => Succeeded("upload")
           /\ backup_file \notin disk => backup_file \in store

W19_UploadedThenDeleted ==
    /\ cmd = "backup" /\ Succeeded("pg_dump") /\ Succeeded("remove")
    /\ backup_file \notin disk
    /\ backup_file \in store

(***************************************************************************)
(* C20: in restore_backup, pg_restore runs only after DROP DATABASE and    *)
(* CREATE DATABASE both succeeded in this run and the administrative       *)
(* connection was closed; after a failed DROP or CREATE no SQL statement   *)
(* and no pg_restore follows.                                              *)
(***************************************************************************)
C20_ApplyOnlyAfterRecreateAndClose ==
    cmd = "restore" =>
        /\ \A l \in 1 .. Len(log) :
              log[l].op = "pg_restore"
                 => /\ conn = "closed"
                    /\ \E i \in 1 .. l : \E j \in i .. l : \E k \in j .. l :
                          /\ log[i].op = "drop" /\ log[i].ok
                          /\ log[j].op = "create" /\ log[j].ok
                          /\ log[k].op = "close"
        /\ (FailedCall("drop") \/ FailedCall("create"))
              => /\ Terminated
                 /\ Count("pg_restore") = 0
                 /\ log[Len(log)].op \in {"drop", "create"}
                 /\ ~log[Len(log)].ok
        /\ FailedCall("drop") => Count("create") = 0

W20_ApplyAfterClose ==
    /\ cmd = "restore" /\ Count("pg_restore") > 0 /\ Terminated
    /\ conn = "closed"
    /\ Succeeded("drop") /\ Succeeded("create")
====
